---- MODULE Spec2Model ----
(***************************************************************************)
(* Model of the compression pipeline of dynamics-compessor-node-anatomy:   *)
(*   - the custom sample compressor, applyCustomCompression (App.tsx);     *)
(*   - the visualization's series, calculateEnvelope and                   *)
(*     calculateGainReduction (waveshape/Waveshape.tsx);                   *)
(*   - the threshold/knee/ratio gain curve, of which each of the two has   *)
(*     its own copy;                                                       *)
(*   - the peak normalizer of Compressor.applyCompression                  *)
(*     (src/unnamed/part_000);                                             *)
(*   - the App component as a state machine: file loads, knob drags        *)
(*     (Knob, src/unnamed/part_001), the makeup-gain toggle, reset, clear, *)
(*     playback, and the decodings and renderings that are pending.        *)
(* The first four are functions of their arguments: a behaviour of Spec is *)
(* one call, its arguments drawn by Init from bounded sets, and the action *)
(* of the called operation.  A behaviour of SpecApp is a session of the    *)
(* App.                                                                    *)
(*                                                                         *)
(* Numbers.  The program computes in IEEE doubles; the model computes in   *)
(* fixed point, rounding once per stored result:                           *)
(*   amplitudes, coefficients, gains : integers in units of 1/Unit         *)
(*   levels and gain reduction (dB)  : integers in units of 1/DbUnit dB    *)
(*   threshold, knee                 : integers in dB (knob step 1)        *)
(*   ratio                           : integers in units of 1/RatioUnit    *)
(*                                     (knob step 0.5)                     *)
(*   attack, release                 : integers in units of 1e-5 s, the    *)
(*                                     epsilon of Waveshape.tsx            *)
(*   sampleRate                      : integers in units of 100 Hz         *)
(* Faulty variants of some definitions are kept next to them, for the      *)
(* mutation checks of the properties.                                      *)
(***************************************************************************)
EXTENDS Integers, Sequences, FiniteSets, TLC

\* ------------------------------------------------------------- units
Unit == 10^4
DbUnit == 10^2
RatioUnit == 2

Abs(x) == IF x < 0 THEN -x ELSE x
Max(a, b) == IF a > b THEN a ELSE b
Min(a, b) == IF a < b THEN a ELSE b

\* n / d rounded to the nearest integer (d > 0): the rounding of a stored result.
RoundDiv(n, d) == (n + d \div 2) \div d


\* ------------------------------------------------- Math.exp, pow, log10
\* exp(-x) for 0 <= x <= 1 (x and the result in units of 1/Unit): the Taylor
\* series 1 - x + x^2/2! - ... up to x^8/8!, each term rounded.
ExpNegSeries(x) ==
  LET t1 == x
      t2 == RoundDiv(t1 * x, 2 * Unit)
      t3 == RoundDiv(t2 * x, 3 * Unit)
      t4 == RoundDiv(t3 * x, 4 * Unit)
      t5 == RoundDiv(t4 * x, 5 * Unit)
      t6 == RoundDiv(t5 * x, 6 * Unit)
      t7 == RoundDiv(t6 * x, 7 * Unit)
      t8 == RoundDiv(t7 * x, 8 * Unit)
  IN  Unit - t1 + t2 - t3 + t4 - t5 + t6 - t7 + t8

\* Math.exp(-x) for x >= 0: exp(-x) = exp(-x/2)^2 until the series applies.
RECURSIVE ExpNeg(_)
ExpNeg(x) ==
  IF x <= Unit
    THEN ExpNegSeries(x)
    ELSE LET h == ExpNeg(x \div 2)
             r == IF x % 2 = 1 THEN ExpNegSeries(1) ELSE Unit
         IN  RoundDiv(RoundDiv(h * h, Unit) * r, Unit)

\* Math.pow(10, -g / 20) for g >= 0 in 1/DbUnit dB, as exp(-g * ln(10)/20);
\* ln(10)/20 = 0.115129.
Pow10Neg(g) == ExpNeg(RoundDiv(g * 115129, (10^6 \div Unit) * DbUnit))


\* Math.log10: the least attenuation g in lo..hi (1/DbUnit dB) whose linear
\* gain 10^(-g/20) does not exceed env, by bisection.
RECURSIVE AttenuationOf(_, _, _)
AttenuationOf(env, lo, hi) ==
  IF lo >= hi
    THEN hi
    ELSE LET mid == (lo + hi) \div 2
         IN  IF Pow10Neg(mid) <= env
               THEN AttenuationOf(env, lo, mid)
               ELSE AttenuationOf(env, mid + 1, hi)

\* The level a zero envelope is given, in dB.
FloorDb == -100

\* 20 * Math.log10(env) for every amplitude 0 < env <= Unit, tabulated once.
Log10Db == [env \in 1..Unit |-> -AttenuationOf(env, 0, -FloorDb * DbUnit)]

\* envFollower > 0 ? 20 * Math.log10(envFollower) : -100.
ToDb(env) == IF env > 0 THEN Log10Db[env] ELSE FloorDb * DbUnit


\* ------------------------------------------------------- parameters
DEFAULT_PARAMS ==
  [threshold |-> 0, knee |-> 0, ratio |-> RatioUnit, attack |-> 300, release |-> 1000]

\* ---------------------------------------------------------- gain curve
\* Faulty variant: the knee taken whole below the threshold, threshold - knee.
KneeStartWholeKnee(threshold, knee) == threshold * DbUnit - knee * DbUnit

\* threshold - knee / 2 and threshold + knee / 2, in 1/DbUnit dB.
KneeStart(threshold, knee) == threshold * DbUnit - (knee * DbUnit) \div 2
KneeEnd(threshold, knee) == threshold * DbUnit + (knee * DbUnit) \div 2

\* Faulty variant: the difference taken the wrong way round, (threshold - envDb).
AboveKneeDbSwapped(envDb, threshold, ratio) ==
  RoundDiv((threshold * DbUnit - envDb) * (ratio - RatioUnit), ratio)

\* Faulty variant: the slope 1 / ratio in place of 1 - 1 / ratio.
AboveKneeDbInverseRatio(envDb, threshold, ratio) ==
  RoundDiv((envDb - threshold * DbUnit) * RatioUnit, ratio)

\* (envDb - threshold) * (1 - 1 / ratio); 1 - 1/ratio = (ratio - RatioUnit) / ratio.
AboveKneeDb(envDb, threshold, ratio) ==
  RoundDiv((envDb - threshold * DbUnit) * (ratio - RatioUnit), ratio)

\* Faulty variant: the quadratic divided by kneeRange, not by 2 * kneeRange.
InKneeDbNoHalf(envDb, threshold, knee, ratio) ==
  LET kneeRange == KneeEnd(threshold, knee) - KneeStart(threshold, knee)
      x == envDb - KneeStart(threshold, knee)
  IN  RoundDiv((ratio - RatioUnit) * (x * x), ratio * kneeRange)

\* ((1 - 1 / ratio) * (x * x)) / (2 * kneeRange), x = envDb - kneeStart.
InKneeDb(envDb, threshold, knee, ratio) ==
  LET kneeRange == KneeEnd(threshold, knee) - KneeStart(threshold, knee)
      x == envDb - KneeStart(threshold, knee)
  IN  RoundDiv((ratio - RatioUnit) * (x * x), ratio * (2 * kneeRange))

\* The curve of the sample compressor: the branch taken and its result.
GainCurveApp(envDb, threshold, knee, ratio) ==
  IF envDb > KneeEnd(threshold, knee)
    THEN [branch |-> "above", gainReductionDb |-> AboveKneeDb(envDb, threshold, ratio)]
    ELSE IF envDb > KneeStart(threshold, knee) /\ knee > 0
      THEN [branch |-> "knee",
            gainReductionDb |-> InKneeDb(envDb, threshold, knee, ratio)]
      ELSE [branch |-> "below", gainReductionDb |-> 0]

\* Faulty variant: the threshold left out, gr = inputDb * (1 - 1 / ratio).
VisAboveKneeDbNoThreshold(inputDb, thresholdDb, ratio) ==
  RoundDiv(inputDb * (ratio - RatioUnit), ratio)

\* The visualization's copy: gr = (inputDb - thresholdDb) * (1 - 1 / ratio).
VisAboveKneeDb(inputDb, thresholdDb, ratio) ==
  RoundDiv((inputDb - thresholdDb * DbUnit) * (ratio - RatioUnit), ratio)

\* Faulty variant: x measured from the threshold, not from kneeStart.
VisInKneeDbFromThreshold(inputDb, kneeStart, kneeRange, ratio) ==
  LET x == inputDb - (kneeStart + kneeRange \div 2)
  IN  RoundDiv((ratio - RatioUnit) * (x * x), ratio * (2 * kneeRange))

\* The visualization's copy: gr = ((1 - 1 / ratio) * (x * x)) / (2 * kneeRange).
VisInKneeDb(inputDb, kneeStart, kneeRange, ratio) ==
  LET x == inputDb - kneeStart
  IN  RoundDiv((ratio - RatioUnit) * (x * x), ratio * (2 * kneeRange))

\* Faulty variant: full compression from kneeStart on, the soft knee never entered.
GainCurveVisFromKneeStart(inputDb, thresholdDb, kneeDb, ratio) ==
  LET kneeStart == thresholdDb * DbUnit - (kneeDb * DbUnit) \div 2
  IN  IF inputDb > kneeStart
        THEN [branch |-> "above",
              gainReductionDb |-> VisAboveKneeDb(inputDb, thresholdDb, ratio)]
        ELSE [branch |-> "below", gainReductionDb |-> 0]

\* The curve of the visualization (calculateGainReduction, per output index):
\* the branch taken and the instantaneous reduction gr.
GainCurveVis(inputDb, thresholdDb, kneeDb, ratio) ==
  LET kneeStart == thresholdDb * DbUnit - (kneeDb * DbUnit) \div 2
      kneeEnd == thresholdDb * DbUnit + (kneeDb * DbUnit) \div 2
      kneeRange == kneeEnd - kneeStart
  IN  IF inputDb > kneeEnd
        THEN [branch |-> "above",
              gainReductionDb |-> VisAboveKneeDb(inputDb, thresholdDb, ratio)]
        ELSE IF inputDb > kneeStart /\ kneeDb > 0 /\ kneeRange > 0
          THEN [branch |-> "knee",
                gainReductionDb |-> VisInKneeDb(inputDb, kneeStart, kneeRange, ratio)]
          ELSE [branch |-> "below", gainReductionDb |-> 0]


\* ------------------------------------------------------ time constants
\* sampleRate * time, in 1/1000 sample (100 Hz times 1e-5 s).
Divisor(sampleRate, time) == sampleRate * time

\* floor((q + r/d) * 10^k): k more decimal digits of a quotient.
RECURSIVE MoreDigits(_, _, _, _)
MoreDigits(q, r, d, k) ==
  IF k = 0 THEN q ELSE MoreDigits(q * 10 + (r * 10) \div d, (r * 10) % d, d, k - 1)

\* Math.exp(-1 / (divisor * 10^-shift)); -1 / 0 is -Infinity and exp(-Infinity) is 0.
ExpCoeff(divisor, shift) ==
  IF divisor = 0
    THEN 0
    ELSE ExpNeg(MoreDigits((Unit * 1000) \div divisor, (Unit * 1000) % divisor,
                           divisor, shift))

\* The time constants of one site: the times used, the divisors
\* sampleRate * time (in 10^-(3+shift) sample) and the coefficients.
TimeConstants(sampleRate, attackTime, releaseTime, shift) ==
  [computed |-> TRUE,
   attackTime |-> attackTime,
   releaseTime |-> releaseTime,
   attackDivisor |-> Divisor(sampleRate, attackTime),
   releaseDivisor |-> Divisor(sampleRate, releaseTime),
   attackCoeff |-> ExpCoeff(Divisor(sampleRate, attackTime), shift),
   releaseCoeff |-> ExpCoeff(Divisor(sampleRate, releaseTime), shift)]

\* The coefficients of the sample compressor: attack and release used as given.
CompressorCoeffs(sampleRate, attack, release) ==
  TimeConstants(sampleRate, attack, release, 0)

\* The epsilon of Math.max(attack, 0.00001), in 1e-5 s.
Epsilon == 1

\* const safeAttack = Math.max(attack, 0.00001), and the same for release.
SafeTime(time) == Max(time, Epsilon)

\* The coefficients of calculateEnvelope, from the floored times.
EnvelopeCoeffs(sampleRate, attack, release) ==
  TimeConstants(sampleRate, SafeTime(attack), SafeTime(release), 0)

\* The factor 0.001 of grAttackTime and grReleaseTime, as a power of ten.
GrTimeShift == 3

\* The coefficients of calculateGainReduction: the floored times scaled by
\* 0.001 (the times are kept in 1e-5 s, the scale is the divisor's shift).
GainReductionCoeffs(sampleRate, attack, release) ==
  TimeConstants(sampleRate, SafeTime(attack), SafeTime(release), GrTimeShift)

\* ------------------------------------------------------ sample compressor
\* Faulty variant: the two coefficients exchanged.
EnvelopeStepSwapped(envFollower, absSample, attackCoeff, releaseCoeff) ==
  IF absSample > envFollower
    THEN absSample + RoundDiv((envFollower - absSample) * releaseCoeff, Unit)
    ELSE absSample + RoundDiv((envFollower - absSample) * attackCoeff, Unit)

\* Faulty variant: in the attack phase the difference is added to the state,
\* which moves it away from the input.
EnvelopeStepAwayFromInput(envFollower, absSample, attackCoeff, releaseCoeff) ==
  IF absSample > envFollower
    THEN envFollower + RoundDiv((envFollower - absSample) * attackCoeff, Unit)
    ELSE absSample + RoundDiv((envFollower - absSample) * releaseCoeff, Unit)

\* One step of the envelope follower of the sample compressor.
EnvelopeStep(envFollower, absSample, attackCoeff, releaseCoeff) ==
  IF absSample > envFollower
    THEN absSample + RoundDiv((envFollower - absSample) * attackCoeff, Unit)
    ELSE absSample + RoundDiv((envFollower - absSample) * releaseCoeff, Unit)

\* Math.pow(10, -gainReductionDb / 20); a negative reduction is a gain above 1.
GainLin(gainReductionDb) ==
  IF gainReductionDb >= 0
    THEN Pow10Neg(gainReductionDb)
    ELSE (Unit * Unit) \div Max(Pow10Neg(-gainReductionDb), 1)

\* output[i] = sample * gainLin, stored in the output's Float32Array (the
\* whole and the fractional part of the gain multiplied apart, to stay in range).
OutputSample(sample, gainLin) ==
  sample * (gainLin \div Unit) + RoundDiv(sample * (gainLin % Unit), Unit)

\* The body of the sample loop for input[i..], with the envelope so far:
\* what it computes for every sample, in order.
RECURSIVE SampleLoop(_, _, _, _, _)
SampleLoop(input, i, envFollower, p, c) ==
  IF i > Len(input)
    THEN << >>
    ELSE LET sample == input[i]
             env == EnvelopeStep(envFollower, Abs(sample), c.attackCoeff, c.releaseCoeff)
             envDb == ToDb(env)
             curve == GainCurveApp(envDb, p.threshold, p.knee, p.ratio)
             gainLin == GainLin(curve.gainReductionDb)
         IN  << [envFollower |-> env, envDb |-> envDb, branch |-> curve.branch,
                 gainReductionDb |-> curve.gainReductionDb, gainLin |-> gainLin,
                 output |-> OutputSample(sample, gainLin)] >>
             \o SampleLoop(input, i + 1, env, p, c)

\* Faulty variant: the envelope declared once, outside the channel loop, so
\* that a channel starts from the envelope the previous channel ended with.
RECURSIVE CarriedEnvelope(_, _, _, _)
CarriedEnvelope(buffer, ch, p, c) ==
  IF ch = 0
    THEN 0
    ELSE LET l == SampleLoop(buffer.channels[ch], 1, CarriedEnvelope(buffer, ch - 1, p, c),
                             p, c)
         IN  l[Len(l)].envFollower
ChannelLoopCarried(buffer, p, c) ==
  [ch \in 1..Len(buffer.channels) |->
     SampleLoop(buffer.channels[ch], 1, CarriedEnvelope(buffer, ch - 1, p, c), p, c)]

\* The channel loop: per channel, the sample loop from envFollower = 0.
ChannelLoop(buffer, p, c) ==
  [ch \in 1..Len(buffer.channels) |-> SampleLoop(buffer.channels[ch], 1, 0, p, c)]


\* -------------------------------------------------------- visualization
\* The largest absolute sample of data[startIdx..endIdx-1] (indices from 0),
\* 0 when the range is empty.
SegmentPeak(data, startIdx, endIdx) ==
  LET abs == {Abs(data[j + 1]) : j \in startIdx..(endIdx - 1)} \cup {0}
  IN  CHOOSE m \in abs : \A a \in abs : a <= m

\* Faulty variant: the quotient rounded down.
CeilRoundedDown(n, d) == n \div d

\* Math.ceil(n / d) for n >= 0, d > 0.
Ceil(n, d) == (n + d - 1) \div d

\* Faulty variant: the update subtracted instead of added.
SegmentEnvelopeStepSignFlipped(envValue, peak, attackCoeff, releaseCoeff) ==
  IF peak > envValue
    THEN envValue - RoundDiv((peak - envValue) * (Unit - attackCoeff), Unit)
    ELSE envValue - RoundDiv((peak - envValue) * (Unit - releaseCoeff), Unit)

\* Faulty variant: x + (s - x) * (1 - coeff), the state taken a fraction coeff
\* of the way to the peak.
SegmentEnvelopeStepByCoeff(envValue, peak, attackCoeff, releaseCoeff) ==
  IF peak > envValue
    THEN peak + RoundDiv((envValue - peak) * (Unit - attackCoeff), Unit)
    ELSE peak + RoundDiv((envValue - peak) * (Unit - releaseCoeff), Unit)

\* One step of the envelope of the visualization, per segment peak.
SegmentEnvelopeStep(envValue, peak, attackCoeff, releaseCoeff) ==
  IF peak > envValue
    THEN envValue + RoundDiv((peak - envValue) * (Unit - attackCoeff), Unit)
    ELSE envValue + RoundDiv((peak - envValue) * (Unit - releaseCoeff), Unit)

\* The loop of calculateEnvelope from output index i (from 0) on.
RECURSIVE EnvelopeLoop(_, _, _, _, _, _)
EnvelopeLoop(data, step, outputLength, i, envValue, c) ==
  IF i >= outputLength
    THEN << >>
    ELSE LET startIdx == i * step
             endIdx == Min(startIdx + step, Len(data))
             peak == SegmentPeak(data, startIdx, endIdx)
             env == SegmentEnvelopeStep(envValue, peak, c.attackCoeff, c.releaseCoeff)
         IN  <<Min(env, Unit)>> \o EnvelopeLoop(data, step, outputLength, i + 1, env, c)

\* What the loop of calculateEnvelope does from output index i (from 0) on,
\* per index: the segment it reads, the peak found, the state before and
\* after the update, the coefficient applied and the value stored.
RECURSIVE SegmentLoop(_, _, _, _, _, _)
SegmentLoop(data, step, outputLength, i, envValue, c) ==
  IF i >= outputLength
    THEN << >>
    ELSE LET startIdx == i * step
             endIdx == Min(startIdx + step, Len(data))
             peak == SegmentPeak(data, startIdx, endIdx)
             env == SegmentEnvelopeStep(envValue, peak, c.attackCoeff, c.releaseCoeff)
         IN  << [startIdx |-> startIdx, endIdx |-> endIdx, peak |-> peak,
                 previous |-> envValue, envValue |-> env,
                 coeff |-> IF peak > envValue THEN c.attackCoeff ELSE c.releaseCoeff,
                 stored |-> Min(env, Unit)] >>
             \o SegmentLoop(data, step, outputLength, i + 1, env, c)

\* The segments of calculateEnvelope(data, sampleRate, attack, release,
\* outputLength), for outputLength >= 0.
CalculateEnvelopeSegments(data, sampleRate, attack, release, outputLength) ==
  IF outputLength = 0
    THEN << >>
    ELSE SegmentLoop(data, Ceil(Len(data), outputLength), outputLength, 0, 0,
                     EnvelopeCoeffs(sampleRate, attack, release))

\* new Float32Array(length): `length` zeros, or a RangeError for a negative length.
NewFloat32Array(length) ==
  IF length < 0
    THEN [raised |-> "RangeError", array |-> << >>]
    ELSE [raised |-> "none", array |-> [i \in 1..length |-> 0]]

\* calculateEnvelope(data, sampleRate, attack, release, outputLength), once its
\* Float32Array is allocated (outputLength >= 0).  With outputLength = 0 the
\* step is Infinity and the loop body never runs.
CalculateEnvelope(data, sampleRate, attack, release, outputLength) ==
  IF outputLength = 0
    THEN NewFloat32Array(outputLength).array
    ELSE EnvelopeLoop(data, Ceil(Len(data), outputLength), outputLength, 0, 0,
                      EnvelopeCoeffs(sampleRate, attack, release))

\* One step of the smoothing of the gain reduction.
GrSmoothStep(grSmoothed, gr, attackCoeff, releaseCoeff) ==
  IF gr > grSmoothed
    THEN gr + RoundDiv((grSmoothed - gr) * attackCoeff, Unit)
    ELSE gr + RoundDiv((grSmoothed - gr) * releaseCoeff, Unit)

\* The loop of calculateGainReduction from output index i (from 0) on.
RECURSIVE GainReductionLoop(_, _, _, _, _, _, _)
GainReductionLoop(envelope, step, outputLength, i, grSmoothed, p, c) ==
  IF i >= outputLength
    THEN << >>
    ELSE LET envIdx == Min(i * step, Len(envelope) - 1)
             envValue == envelope[envIdx + 1]
             inputDb == ToDb(envValue)
             gr == GainCurveVis(inputDb, p.threshold, p.knee, p.ratio).gainReductionDb
             smoothed == GrSmoothStep(grSmoothed, gr, c.attackCoeff, c.releaseCoeff)
         IN  <<smoothed>>
             \o GainReductionLoop(envelope, step, outputLength, i + 1, smoothed, p, c)

\* Faulty variant: no early return, the loop runs for every ratio.
GainReductionEarlyReturnNever(ratio) == FALSE

\* if (ratio <= 1) return gainReduction: the early return of calculateGainReduction.
GainReductionEarlyReturn(ratio) == ratio <= RatioUnit

\* Math.ceil(envelope.length / outputLength) || 1: 1 when the quotient is 0 or
\* NaN (with outputLength = 0 the loop body never runs, whatever the step).
GainReductionStep(length, outputLength) ==
  IF length = 0 \/ outputLength = 0 THEN 1 ELSE Ceil(length, outputLength)

\* calculateGainReduction(envelope, sampleRate, thresholdDb, kneeDb, ratio,
\* attack, release, outputLength), once its Float32Array is allocated
\* (outputLength >= 0): the untouched zeros when ratio <= 1, before any time
\* constant is computed.
CalculateGainReduction(envelope, sampleRate, p, outputLength) ==
  IF GainReductionEarlyReturn(p.ratio)
    THEN NewFloat32Array(outputLength).array
    ELSE GainReductionLoop(envelope, GainReductionStep(Len(envelope), outputLength),
                           outputLength, 0, 0,
                           p, GainReductionCoeffs(sampleRate, p.attack, p.release))

\* ------------------------------------------------------------ buffers
\* An AudioBuffer: [sampleRate, channels], channels a sequence of sample
\* sequences of one length.  The heap is the sequence of the buffers allocated
\* so far; a buffer's reference is its index, 0 is null.
NumberOfChannels(buffer) == Len(buffer.channels)
Length(buffer) == Len(buffer.channels[1])

\* Faulty variant: no allocation, the output written into the last buffer (the input).
CreateBufferInPlace(h) == Len(h)

\* audioContextRef.current.createBuffer(...): the reference of a new buffer.
CreateBuffer(h) == Len(h) + 1

\* The heap with `content` written through reference `ref`.
Store(h, ref, content) ==
  IF ref = Len(h) + 1 THEN Append(h, content) ELSE [h EXCEPT ![ref] = content]

\* The buffer applyCustomCompression fills: createBuffer(numChannels, length,
\* sampleRate), then output[i] for every channel and sample.
OutputBufferOf(buffer, loop) ==
  [sampleRate |-> buffer.sampleRate,
   channels |-> [ch \in 1..NumberOfChannels(buffer) |->
                   [i \in 1..Length(buffer) |-> loop[ch][i].output]]]

\* ------------------------------------------------------ peak normalizer
\* The first loop of the normalizer: the largest absolute sample over all
\* channels, from maxPeak = 0.
MaxPeak(buffer) ==
  LET abs == {Abs(buffer.channels[ch][i]) :
                <<ch, i>> \in {x \in (1..NumberOfChannels(buffer)) \X (1..Length(buffer)) : TRUE}}
              \cup {0}
  IN  CHOOSE m \in abs : \A a \in abs : a <= m

\* Faulty variant: the buffer is scaled whenever it is not silent.
NeedsNormalizingAlways(maxPeak) == maxPeak > 0

\* if (maxPeak > 1)
NeedsNormalizing(maxPeak) == maxPeak > Unit

\* Faulty variant: the gain half way between 1 and 1 / maxPeak.
NormalizedSampleHalfway(sample, maxPeak) ==
  RoundDiv(sample * (Unit + maxPeak), 2 * maxPeak)

\* data[i] *= gain with gain = 1 / maxPeak: the product of doubles, rounded
\* once when it is stored in the Float32Array.
NormalizedSample(sample, maxPeak) == RoundDiv(sample * Unit, maxPeak)

\* The normalizer applied to the content of a buffer (it writes in place).
PeakNormalize(buffer) ==
  LET maxPeak == MaxPeak(buffer)
  IN  IF NeedsNormalizing(maxPeak)
        THEN [buffer EXCEPT !.channels =
                [ch \in 1..NumberOfChannels(buffer) |->
                   [i \in 1..Length(buffer) |->
                      NormalizedSample(buffer.channels[ch][i], maxPeak)]]]
        ELSE buffer

\* --------------------------------------------------------------- bounds
MaxSamples == 4
LevelMargin == 6
MaxWidth == 3

Shapes ==
  {s \in (1..MaxSamples) \X (1..MaxSamples) : s[1] * s[2] <= MaxSamples}
SampleValues == {-Unit, 0, Unit \div 10}
SampleRates == {80, 441}
Buffers ==
  UNION {[sampleRate : SampleRates,
          channels : [1..s[1] -> [1..s[2] -> SampleValues]]] : s \in Shapes}

\* Parameter sets the knobs can produce (ratio >= 1), for whole-buffer calls.
KnobParams ==
  [threshold : {-100, -20, 0}, knee : {0, 40}, ratio : {RatioUnit, 4 * RatioUnit, 20 * RatioUnit},
   attack : {0, 300}, release : {0, 1000}]

\* The buffers and parameter sets the visualization is run on (it reads
\* channel 0 only), and its widths.
\* Decoded audio is not confined to [-1, 1]: one-channel buffers with samples
\* beyond full scale are among the visualization's inputs.  Its parameter sets
\* include a ratio below 1, its widths 0 and a negative one.
LoudSampleValues == {-2 * Unit, 0, (3 * Unit) \div 2}
LoudBuffers ==
  UNION {[sampleRate : {441}, channels : [1..1 -> [1..n -> LoudSampleValues]]] :
           n \in 1..(MaxSamples - 2)}
\* One-channel buffers of full length whose non-zero samples are beyond full
\* scale.
LongLoudBuffers ==
  [sampleRate : {441}, channels : [1..1 -> [1..MaxSamples -> {-2 * Unit, 0}]]]
VisBuffers ==
  {b \in Buffers : Len(b.channels) <= 2 /\ b.sampleRate = 441}
    \cup LoudBuffers \cup LongLoudBuffers
VisParams ==
  [threshold : {-100, -20}, knee : {0, 40}, ratio : {1, RatioUnit, 4 * RatioUnit},
   attack : {0, 300}, release : {0, 1000}]
Widths == {-1} \cup (0..MaxWidth)

\* Buffers an offline rendering with makeup gain can return: samples within
\* and beyond full scale.
RenderedSampleValues == {-3 * Unit, -(Unit \div 2), 0, (7 * Unit) \div 10, 2 * Unit}
RenderedBuffers ==
  UNION {[sampleRate : {441},
          channels : [1..s[1] -> [1..s[2] -> RenderedSampleValues]]] :
           s \in {t \in Shapes : t[1] <= 2}}

\* Arguments of the gain curve: the knob range of ratio and a ratio below 1.
CurveParams ==
  [threshold : {-100, -40, -20, 0}, knee : {0, 1, 12, 40},
   ratio : {1, RatioUnit, 3, 4 * RatioUnit, 20 * RatioUnit},
   attack : {DEFAULT_PARAMS.attack}, release : {DEFAULT_PARAMS.release}]

\* Levels in half dB, from LevelMargin below the floor to LevelMargin above 0 dB.
Levels ==
  {l * (DbUnit \div 2) : l \in (2 * (FloorDb - LevelMargin))..(2 * LevelMargin)}

\* ---------------------------------------------------------------- state
VARIABLES
  pc,          \* "call": the operation is about to run; "done": it has returned
  op,          \* the operation: "compress", "visualize" or "curve"
  params,      \* paramsRef.current, or the curve's arguments
  heap,        \* the AudioBuffers allocated so far
  bufferRef,   \* the buffer passed to applyCustomCompression (0: none)
  input,       \* the content of that buffer when the call was made
  outputRef,   \* the buffer applyCustomCompression returned (0: none yet)
  coeffs,      \* the time constants applyCustomCompression computed
  loop,        \* what the sample loop computed, per channel and sample
  levelDb,     \* the level passed to the gain curve
  curveApp,    \* the result of the compressor's copy of the curve
  curveVis,    \* the result of the visualization's copy of the curve
  width,       \* the outputLength the visualization is asked for
  envelope,    \* the series calculateEnvelope returned
  gainReduction, \* the series calculateGainReduction returned
  envCoeffs,   \* the time constants calculateEnvelope computed
  segments,    \* what the loop of calculateEnvelope did, per output index
  grCoeffs,    \* the time constants calculateGainReduction computed
  raised,      \* the error the operation raised ("none": it returned)
  normalizerRuns, \* the rendered buffer's content after each run of the normalizer
  \* The state of the App component, its refs and what is pending:
  originalBuffer, \* state originalBuffer
  audioBuffer,    \* state audioBuffer, the playback buffer
  paramsState,    \* state params, which drives the visualization
  makeupGain,     \* state makeupGain
  makeupGainRef,  \* makeupGainRef.current
  isProcessing,   \* state isProcessing
  isPlaying,      \* state isPlaying
  sourceRef,      \* sourceRef.current: the index of a source in `sources`, 0 for null
  sources,        \* every AudioBufferSourceNode created: "started", "stopped", "ended"
  drag,           \* the knob drag in progress: the closures handleMouseDown installed
  decoding,       \* the files whose decoding is pending, in the order of the requests
  rendering,      \* the offline renderings pending, in the order of the requests
  events          \* the number of user events handled so far

dspVars == <<heap, outputRef, coeffs, loop>>
curveVars == <<curveApp, curveVis>>
visVars == <<envelope, gainReduction, envCoeffs, grCoeffs, raised, segments>>
inputVars == <<op, params, bufferRef, input, levelDb, width>>
normVars == <<normalizerRuns>>
bufferVars == <<originalBuffer, audioBuffer, isProcessing, rendering>>
paramVars == <<paramsState, makeupGain, makeupGainRef>>
playVars == <<isPlaying, sourceRef, sources>>
appVars == <<bufferVars, paramVars, playVars, drag, decoding, events>>
vars == <<pc, inputVars, dspVars, curveVars, visVars, normVars, appVars>>

NoCurve == [branch |-> "none", gainReductionDb |-> 0]
NoCoeffs ==
  [computed |-> FALSE, attackTime |-> 0, releaseTime |-> 0, attackDivisor |-> 0,
   releaseDivisor |-> 0, attackCoeff |-> 0, releaseCoeff |-> 0]
NoBuffer == [sampleRate |-> 0, channels |-> << >>]

\* ------------------------------------------------- the App component
\* An AudioBuffer held by the App: its content, and where it came from: the
\* file it was decoded from, or the pass that made it (custom or standard),
\* the kind and file of that pass's input and the parameters it ran with.
Null ==
  [kind |-> "null", file |-> "none", inputKind |-> "none", params |-> DEFAULT_PARAMS,
   content |-> NoBuffer]

Files == {"A", "B", "corrupt"}
FileContent(file) ==
  CASE file = "A" -> [sampleRate |-> 441, channels |-> << <<Unit, Unit \div 10>> >>]
    [] file = "B" -> [sampleRate |-> 80, channels |-> << <<-Unit>>, <<Unit \div 10>> >>]
    [] OTHER -> NoBuffer
Decodable(file) == FileContent(file) # NoBuffer

\* The buffer ctx.decodeAudioData(arrayBuffer) resolves to.
Decoded(file) ==
  [kind |-> "decoded", file |-> file, inputKind |-> "none", params |-> DEFAULT_PARAMS,
   content |-> FileContent(file)]

\* The buffer applyCustomCompression(buffer) resolves to, with p = paramsRef.current.
CustomPass(buffer, p) ==
  [kind |-> "custom", file |-> buffer.file, inputKind |-> buffer.kind, params |-> p,
   content |-> OutputBufferOf(buffer.content,
                              ChannelLoop(buffer.content, p,
                                          CompressorCoeffs(buffer.content.sampleRate,
                                                           p.attack, p.release)))]

\* What the browser's DynamicsCompressorNode renders is not this program's
\* code: a rendering has the input's shape, and is quieter or (makeup gain)
\* louder than the input.
Renderings(content) ==
  {[content EXCEPT !.channels =
      [ch \in 1..NumberOfChannels(content) |->
         [i \in 1..Length(content) |-> (content.channels[ch][i] * g) \div 2]]] :
     g \in {1, 3}}

\* The buffer offlineCtx.startRendering() resolves to, for a pending rendering.
StandardPass(r, content) ==
  [kind |-> "standard", file |-> r.input.file, inputKind |-> r.input.kind,
   params |-> r.params, content |-> content]

\* Faulty variant: no guard.
NoOriginalNever(buffer) == FALSE

\* !originalBuffer
NoOriginal(buffer) == buffer.kind = "null"

\* The knobs of the App: key, min, max and step in the units of the model
\* (ratio in 1/RatioUnit, attack and release in 1e-5 s).
Knobs ==
  {[key |-> "threshold", min |-> -100, max |-> 0, step |-> 1],
   [key |-> "knee", min |-> 0, max |-> 40, step |-> 1],
   [key |-> "ratio", min |-> RatioUnit, max |-> 20 * RatioUnit, step |-> 1],
   [key |-> "attack", min |-> 0, max |-> 10^5, step |-> 100],
   [key |-> "release", min |-> 0, max |-> 10^5, step |-> 1000]}
KnobOf(key) == CHOOSE k \in Knobs : k.key = key

\* const sensitivity = range / 150: the pixels of a drag over the whole range.
KnobPixels == 150

\* Faulty variant: the value is not clamped.
ClampToRangeNone(knob, moved) == moved

\* Math.max(min, Math.min(max, newValue)), newValue in 1/KnobPixels of a unit.
ClampToRange(knob, moved) ==
  Max(knob.min * KnobPixels, Min(knob.max * KnobPixels, moved))

\* The value handleMouseMove emits for a drag of `delta` pixels upwards from
\* startValue: moved by delta * range / 150, clamped, then rounded to the step.
HandleMouseMoveValue(knob, startValue, delta) ==
  LET range == knob.max - knob.min
      moved == startValue * KnobPixels + delta * range
      clamped == ClampToRange(knob, moved)
  IN  RoundDiv(clamped, KnobPixels * knob.step) * knob.step

\* The two memoized series of Waveshape for the App's state: null without an
\* original buffer, else computed from channel 0 of the original buffer.
WaveshapeMemo(buffer, p, outputLength) ==
  IF NoOriginal(buffer)
    THEN [isNull |-> TRUE, raised |-> "none", envelope |-> << >>, gainReduction |-> << >>]
    ELSE IF buffer.kind = "null"
      THEN [isNull |-> FALSE, raised |-> "TypeError", envelope |-> << >>,
            gainReduction |-> << >>]
      ELSE LET env == CalculateEnvelope(buffer.content.channels[1],
                                        buffer.content.sampleRate, p.attack, p.release,
                                        outputLength)
           IN  [isNull |-> FALSE, raised |-> "none", envelope |-> env,
                gainReduction |-> CalculateGainReduction(env, buffer.content.sampleRate,
                                                         p, outputLength)]

NoDrag == [key |-> "none", startValue |-> 0, currentValue |-> 0, originalBuffer |-> Null]

\* The App before any event: no file, the default parameters, nothing pending.
AppInit ==
  /\ originalBuffer = Null
  /\ audioBuffer = Null
  /\ paramsState = DEFAULT_PARAMS
  /\ makeupGain = FALSE
  /\ makeupGainRef = FALSE
  /\ isProcessing = FALSE
  /\ isPlaying = FALSE
  /\ sourceRef = 0
  /\ sources = << >>
  /\ drag = NoDrag
  /\ decoding = << >>
  /\ rendering = << >>
  /\ events = 0

Init ==
  /\ pc = "call"
  /\ outputRef = 0
  /\ coeffs = NoCoeffs
  /\ loop = << >>
  /\ curveApp = NoCurve
  /\ curveVis = NoCurve
  /\ envelope = << >>
  /\ gainReduction = << >>
  /\ envCoeffs = NoCoeffs
  /\ segments = << >>
  /\ grCoeffs = NoCoeffs
  /\ raised = "none"
  /\ normalizerRuns = << >>
  /\ AppInit
  /\ \/ /\ op = "compress"
        /\ params \in KnobParams
        /\ input \in Buffers
        /\ heap = <<input>>
        /\ bufferRef = 1
        /\ levelDb = 0
        /\ width = 0
     \/ /\ op = "visualize"
        /\ params \in VisParams
        /\ input \in VisBuffers
        /\ heap = <<input>>
        /\ bufferRef = 1
        /\ levelDb = 0
        /\ width \in Widths
     \/ /\ op = "normalize"
        /\ params = DEFAULT_PARAMS
        /\ input \in RenderedBuffers
        /\ heap = <<input>>
        /\ bufferRef = 1
        /\ levelDb = 0
        /\ width = 0
     \/ /\ op = "curve"
        /\ params \in CurveParams
        /\ levelDb \in Levels
        /\ heap = << >>
        /\ bufferRef = 0
        /\ input = NoBuffer
        /\ width = 0

\* applyCustomCompression(buffer): the whole call.
ApplyCustomCompression ==
  /\ pc = "call"
  /\ op = "compress"
  /\ LET buffer == heap[bufferRef]
         c == CompressorCoeffs(buffer.sampleRate, params.attack, params.release)
         result == ChannelLoop(buffer, params, c)
         ref == CreateBuffer(heap)
     IN  /\ heap' = Store(heap, ref, OutputBufferOf(buffer, result))
         /\ outputRef' = ref
         /\ coeffs' = c
         /\ loop' = result
  /\ pc' = "done"
  /\ UNCHANGED <<inputVars, curveVars, visVars, normVars, appVars>>

\* The two memoized computations of Waveshape: the envelope of channel 0 of
\* the original buffer, and the gain reduction from that envelope.  The
\* allocation at the head of calculateEnvelope raises for a negative width,
\* before anything else is computed.
Visualize ==
  /\ pc = "call"
  /\ op = "visualize"
  /\ LET buffer == heap[bufferRef]
         data == buffer.channels[1]
         allocated == NewFloat32Array(width)
         env == CalculateEnvelope(data, buffer.sampleRate, params.attack,
                                  params.release, width)
     IN  IF allocated.raised # "none"
           THEN /\ raised' = allocated.raised
                /\ UNCHANGED <<envelope, gainReduction, envCoeffs, grCoeffs, segments>>
           ELSE /\ raised' = "none"
                /\ envelope' = env
                /\ segments' = CalculateEnvelopeSegments(data, buffer.sampleRate,
                                                         params.attack, params.release,
                                                         width)
                /\ envCoeffs' = EnvelopeCoeffs(buffer.sampleRate, params.attack,
                                               params.release)
                /\ gainReduction' = CalculateGainReduction(env, buffer.sampleRate,
                                                           params, width)
                /\ grCoeffs' = IF GainReductionEarlyReturn(params.ratio)
                                 THEN NoCoeffs
                                 ELSE GainReductionCoeffs(buffer.sampleRate,
                                                          params.attack, params.release)
  /\ pc' = "done"
  /\ UNCHANGED <<inputVars, dspVars, curveVars, normVars, appVars>>

\* Both copies of the gain curve applied to one level.
EvalGainCurve ==
  /\ pc = "call"
  /\ op = "curve"
  /\ curveApp' = GainCurveApp(levelDb, params.threshold, params.knee, params.ratio)
  /\ curveVis' = GainCurveVis(levelDb, params.threshold, params.knee, params.ratio)
  /\ pc' = "done"
  /\ UNCHANGED <<inputVars, dspVars, visVars, normVars, appVars>>

\* The normalizer of Compressor.applyCompression, run on the buffer the offline
\* rendering returned; it can be run again on its own result.
MaxNormalizerRuns == 2
NormalizeRendered ==
  /\ op = "normalize"
  /\ pc \in {"call", "normalized"}
  /\ LET renderedBuffer == heap[bufferRef]
         result == PeakNormalize(renderedBuffer)
     IN  /\ heap' = Store(heap, bufferRef, result)
         /\ normalizerRuns' = Append(normalizerRuns, result)
         /\ outputRef' = bufferRef
  /\ pc' = IF Len(normalizerRuns) + 1 < MaxNormalizerRuns THEN "normalized" ELSE "done"
  /\ UNCHANGED <<inputVars, coeffs, loop, curveVars, visVars, appVars>>

Next ==
  \/ ApplyCustomCompression
  \/ Visualize
  \/ EvalGainCurve
  \/ NormalizeRendered

Spec == Init /\ [][Next]_vars


\* ------------------------------------------- the App as a state machine
\* A behaviour of SpecApp is a session of the App: user events (at most
\* MaxEvents of them) and the completions of what is pending (at most
\* MaxInFlight decodings and renderings at a time), in any order.  While a
\* knob is dragged the mouse is held, and the only user events are the moves
\* and the release of that drag.
MaxEvents == 4
MaxInFlight == 2
MaxSources == 2
KnobDeltas == {-150, -40, 150}

\* What the App's actions leave alone: the variables of the single calls.
idleVars ==
  <<pc, op, bufferRef, input, levelDb, width, dspVars, curveVars, envelope,
    gainReduction, envCoeffs, grCoeffs, segments, normVars>>

InitApp ==
  /\ pc = "app"
  /\ op = "app"
  /\ params = DEFAULT_PARAMS
  /\ heap = << >>
  /\ bufferRef = 0
  /\ input = NoBuffer
  /\ outputRef = 0
  /\ coeffs = NoCoeffs
  /\ loop = << >>
  /\ levelDb = 0
  /\ curveApp = NoCurve
  /\ curveVis = NoCurve
  /\ width = MaxWidth
  /\ envelope = << >>
  /\ gainReduction = << >>
  /\ envCoeffs = NoCoeffs
  /\ segments = << >>
  /\ grCoeffs = NoCoeffs
  /\ raised = "none"
  /\ normalizerRuns = << >>
  /\ AppInit

Without(seq, i) == SubSeq(seq, 1, i - 1) \o SubSeq(seq, i + 1, Len(seq))
InFlight == Len(decoding) + Len(rendering)

\* A click or a change event: handled when no knob is being dragged.
UserEvent ==
  /\ pc = "app"
  /\ drag = NoDrag
  /\ events < MaxEvents
  /\ events' = events + 1

\* stopPlayback(): the current source, if any, is stopped (its ended event
\* is still to come) and forgotten.
StopPlayback ==
  /\ sources' = IF sourceRef # 0 THEN [sources EXCEPT ![sourceRef] = "stopped"] ELSE sources
  /\ sourceRef' = 0
  /\ isPlaying' = FALSE

\* applyCompression() of the render whose originalBuffer is `buffer`, with
\* makeupGainRef.current = standard.  The custom pass has no asynchronous
\* step: its awaits resume in the microtasks of the same event, before any
\* other handler runs.  The standard pass is pending until its rendering
\* resolves.  (A pass on null would throw after setIsProcessing(true).)
ApplyCompression(buffer, standard) ==
  IF NoOriginal(buffer)
    THEN UNCHANGED <<audioBuffer, isProcessing, rendering, raised>>
    ELSE IF buffer.kind = "null"
      THEN /\ isProcessing' = TRUE
           /\ raised' = "TypeError"
           /\ UNCHANGED <<audioBuffer, rendering>>
      ELSE IF standard
        THEN /\ InFlight < MaxInFlight
             /\ rendering' = Append(rendering, [input |-> buffer, params |-> params])
             /\ isProcessing' = TRUE
             /\ UNCHANGED <<audioBuffer, raised>>
        ELSE /\ audioBuffer' = CustomPass(buffer, params)
             /\ isProcessing' = FALSE
             /\ UNCHANGED <<rendering, raised>>

\* handleFileChange(e), up to its first await: a file was chosen.
HandleFileChange ==
  /\ UserEvent
  /\ InFlight < MaxInFlight
  /\ \E file \in Files : decoding' = Append(decoding, file)
  /\ StopPlayback
  /\ params' = DEFAULT_PARAMS
  /\ paramsState' = DEFAULT_PARAMS
  /\ makeupGainRef' = FALSE
  /\ makeupGain' = FALSE
  /\ UNCHANGED <<idleVars, bufferVars, drag, raised>>

\* handleFileChange(e), after its awaits: the decoded buffer becomes the
\* original and the playback buffer.
DecodeAudioDataResolves ==
  /\ pc = "app"
  /\ \E i \in 1..Len(decoding) :
       /\ Decodable(decoding[i])
       /\ originalBuffer' = Decoded(decoding[i])
       /\ audioBuffer' = Decoded(decoding[i])
       /\ decoding' = Without(decoding, i)
  /\ UNCHANGED <<idleVars, params, raised, isProcessing, rendering, paramVars, playVars,
                 drag, events>>

\* decodeAudioData rejects: handleFileChange ends there, nothing is set.
DecodeAudioDataRejects ==
  /\ pc = "app"
  /\ \E i \in 1..Len(decoding) :
       /\ ~Decodable(decoding[i])
       /\ decoding' = Without(decoding, i)
  /\ UNCHANGED <<idleVars, params, raised, bufferVars, paramVars, playVars, drag, events>>

\* togglePlayback(): the button is disabled without a playback buffer.
TogglePlayback ==
  /\ UserEvent
  /\ ~NoOriginal(audioBuffer)
  /\ IF isPlaying
       THEN StopPlayback
       ELSE /\ Len(sources) < MaxSources
            /\ sources' = Append(sources, "started")
            /\ sourceRef' = Len(sources) + 1
            /\ isPlaying' = TRUE
  /\ UNCHANGED <<idleVars, params, raised, bufferVars, paramVars, drag, decoding>>

\* source.onended: the ended event of a source that ran out or was stopped.
SourceEnded ==
  /\ pc = "app"
  /\ \E i \in 1..Len(sources) :
       /\ sources[i] \in {"started", "stopped"}
       /\ sources' = [sources EXCEPT ![i] = "ended"]
  /\ isPlaying' = FALSE
  /\ sourceRef' = 0
  /\ UNCHANGED <<idleVars, params, raised, bufferVars, paramVars, drag, decoding, events>>

\* Knob.handleMouseDown: the drag starts from the knob's value, and the
\* listeners it installs keep the onChangeEnd of this render, that is
\* applyCompression with this render's originalBuffer.
KnobMouseDown ==
  /\ UserEvent
  /\ \E knob \in Knobs :
       drag' = [key |-> knob.key, startValue |-> paramsState[knob.key],
                currentValue |-> paramsState[knob.key], originalBuffer |-> originalBuffer]
  /\ UNCHANGED <<idleVars, params, raised, bufferVars, paramVars, playVars, decoding>>

\* handleMouseMove, then onChange: updateParam(key, newValue).
KnobMouseMove ==
  /\ pc = "app"
  /\ drag # NoDrag
  /\ \E delta \in KnobDeltas :
       LET newValue == HandleMouseMoveValue(KnobOf(drag.key), drag.startValue, delta)
           newParams == [params EXCEPT ![drag.key] = newValue]
       IN  /\ drag' = [drag EXCEPT !.currentValue = newValue]
           /\ params' = newParams
           /\ paramsState' = newParams
  /\ UNCHANGED <<idleVars, raised, bufferVars, makeupGain, makeupGainRef, playVars,
                 decoding, events>>

\* handleMouseUp, then onChangeEnd: the applyCompression kept at mouse down.
KnobMouseUp ==
  /\ pc = "app"
  /\ drag # NoDrag
  /\ drag' = NoDrag
  /\ ApplyCompression(drag.originalBuffer, makeupGainRef)
  /\ UNCHANGED <<idleVars, params, originalBuffer, paramVars, playVars, decoding, events>>

\* applyCompression, after startRendering() resolved.
RenderingResolves ==
  /\ pc = "app"
  /\ \E i \in 1..Len(rendering) :
       /\ \E content \in Renderings(rendering[i].input.content) :
            audioBuffer' = StandardPass(rendering[i], content)
       /\ rendering' = Without(rendering, i)
  /\ isProcessing' = FALSE
  /\ UNCHANGED <<idleVars, params, raised, originalBuffer, paramVars, playVars, drag,
                 decoding, events>>

\* handleMakeupGainToggle(checked)
HandleMakeupGainToggle ==
  /\ UserEvent
  /\ LET checked == ~makeupGain
     IN  /\ makeupGainRef' = checked
         /\ makeupGain' = checked
         /\ IF NoOriginal(originalBuffer)
              THEN UNCHANGED <<audioBuffer, isProcessing, rendering, raised>>
              ELSE ApplyCompression(originalBuffer, checked)
  /\ UNCHANGED <<idleVars, params, originalBuffer, paramsState, playVars, drag, decoding>>

\* resetToDefault()
ResetToDefault ==
  /\ UserEvent
  /\ params' = DEFAULT_PARAMS
  /\ paramsState' = DEFAULT_PARAMS
  /\ audioBuffer' = originalBuffer
  /\ UNCHANGED <<idleVars, raised, originalBuffer, isProcessing, rendering, makeupGain,
                 makeupGainRef, playVars, drag, decoding>>

\* clearFile(): the button is there only with an original buffer.
ClearFile ==
  /\ UserEvent
  /\ ~NoOriginal(originalBuffer)
  /\ StopPlayback
  /\ originalBuffer' = Null
  /\ audioBuffer' = Null
  /\ params' = DEFAULT_PARAMS
  /\ paramsState' = DEFAULT_PARAMS
  /\ makeupGainRef' = FALSE
  /\ makeupGain' = FALSE
  /\ UNCHANGED <<idleVars, raised, isProcessing, rendering, drag, decoding>>

NextApp ==
  \/ HandleFileChange
  \/ DecodeAudioDataResolves
  \/ DecodeAudioDataRejects
  \/ TogglePlayback
  \/ SourceEnded
  \/ KnobMouseDown
  \/ KnobMouseMove
  \/ KnobMouseUp
  \/ RenderingResolves
  \/ HandleMakeupGainToggle
  \/ ResetToDefault
  \/ ClearFile

SpecApp == InitApp /\ [][NextApp]_vars


\* ================================================================ claims
Compressed == pc = "done" /\ op = "compress"
Visualized == pc = "done" /\ op = "visualize"
CurveDone == pc = "done" /\ op = "curve"
OutputBuffer == heap[outputRef]
ChannelsOf(buffer) == 1..Len(buffer.channels)
SamplesOf(buffer, ch) == 1..Len(buffer.channels[ch])

\* C1: with ratio >= 1 the compressor's output never exceeds its input in
\* magnitude, at any channel and sample: the linear gain is at most 1 and the
\* gain reduction in dB is never negative.
C1_OutputBounded ==
  (Compressed /\ params.ratio >= RatioUnit) =>
    \A ch \in ChannelsOf(input) : \A i \in SamplesOf(input, ch) :
      /\ Abs(OutputBuffer.channels[ch][i]) <= Abs(input.channels[ch][i])
      /\ loop[ch][i].gainLin <= Unit
      /\ loop[ch][i].gainReductionDb >= 0

\* A compression with ratio > 1 that lowered a sample.
C1_Witness ==
  /\ Compressed
  /\ params.ratio > RatioUnit
  /\ \E ch \in ChannelsOf(input) : \E i \in SamplesOf(input, ch) :
       /\ loop[ch][i].gainReductionDb > 0
       /\ Abs(OutputBuffer.channels[ch][i]) < Abs(input.channels[ch][i])

\* C2: with ratio = 1 (the default parameters among them) every output sample
\* equals its input sample: gain reduction 0 and linear gain 1 at every sample.
C2_RatioOneIdentity ==
  (Compressed /\ params.ratio = RatioUnit) =>
    \A ch \in ChannelsOf(input) : \A i \in SamplesOf(input, ch) :
      /\ OutputBuffer.channels[ch][i] = input.channels[ch][i]
      /\ loop[ch][i].gainReductionDb = 0
      /\ loop[ch][i].gainLin = Unit

\* The default parameters applied to a buffer with a non-zero sample, and a
\* ratio of 1 whose envelope went above the knee.
C2_Witness ==
  /\ Compressed
  /\ params.ratio = RatioUnit
  /\ \E ch \in ChannelsOf(input) : \E i \in SamplesOf(input, ch) :
       /\ input.channels[ch][i] # 0
       /\ \/ params = DEFAULT_PARAMS
          \/ loop[ch][i].branch = "above"

\* C3: the compressor returns a newly allocated buffer of the input's channel
\* count, per-channel length and sample rate, and leaves the input's samples
\* as they were.
C3_NewBufferSameShape ==
  Compressed =>
    /\ outputRef # bufferRef
    /\ outputRef = Len(heap)
    /\ heap[bufferRef] = input
    /\ OutputBuffer.sampleRate = input.sampleRate
    /\ Len(OutputBuffer.channels) = Len(input.channels)
    /\ \A ch \in ChannelsOf(input) :
         Len(OutputBuffer.channels[ch]) = Len(input.channels[ch])

\* A two-channel compression whose output differs from its input.
C3_Witness ==
  /\ Compressed
  /\ Len(input.channels) = 2
  /\ Len(input.channels[1]) = 2
  /\ OutputBuffer.channels # input.channels


\* The claims' own reading of the curve's regions and of its above-knee value,
\* from the threshold, knee and ratio of the state (levels in 1/DbUnit dB).
AtOrBelowKneeStart(level) == 2 * level <= DbUnit * (2 * params.threshold - params.knee)
AtOrAboveKneeEnd(level) == 2 * level >= DbUnit * (2 * params.threshold + params.knee)
AtKneeEnd(level) == 2 * level = DbUnit * (2 * params.threshold + params.knee)
FullRatioReduction(level) ==
  RoundDiv((level - DbUnit * params.threshold) * (params.ratio - RatioUnit), params.ratio)
LoopEntries == {loop[ch][i] : <<ch, i>> \in {x \in (1..MaxSamples) \X (1..MaxSamples) :
                                              x[1] <= Len(loop) /\ x[2] <= Len(loop[x[1]])}}

\* C4: at every level levelDb <= threshold - knee/2, with ratio in its range,
\* both copies of the gain curve compute a reduction of exactly 0 (and so does
\* the sample loop at every sample whose envelope is that low).
C4_ZeroBelowKnee ==
  /\ (CurveDone /\ params.ratio >= RatioUnit /\ AtOrBelowKneeStart(levelDb)) =>
       (curveApp.gainReductionDb = 0 /\ curveVis.gainReductionDb = 0)
  /\ (Compressed /\ params.ratio >= RatioUnit) =>
       \A e \in LoopEntries : AtOrBelowKneeStart(e.envDb) => e.gainReductionDb = 0

\* The curve applied exactly at the lower knee boundary of a soft knee, ratio > 1.
C4_Witness ==
  /\ CurveDone
  /\ params.ratio > RatioUnit
  /\ params.knee > 0
  /\ 2 * levelDb = DbUnit * (2 * params.threshold - params.knee)
  /\ curveApp.branch = "below"
  /\ curveVis.branch = "below"

\* C5: at every level levelDb >= threshold + knee/2 (knee >= 0, ratio >= 1),
\* the boundary included, both copies compute
\* (levelDb - threshold) * (1 - 1/ratio).
C5_FullRatioAboveKnee ==
  /\ (CurveDone /\ params.ratio >= RatioUnit /\ AtOrAboveKneeEnd(levelDb)) =>
       /\ curveApp.gainReductionDb = FullRatioReduction(levelDb)
       /\ curveVis.gainReductionDb = FullRatioReduction(levelDb)
  /\ (Compressed /\ params.ratio >= RatioUnit) =>
       \A e \in LoopEntries :
         AtOrAboveKneeEnd(e.envDb) => e.gainReductionDb = FullRatioReduction(e.envDb)

\* The curve applied exactly at the upper boundary, where the strict comparison
\* sends a soft knee to the knee branch.
C5_Witness ==
  /\ CurveDone
  /\ params.ratio > RatioUnit
  /\ params.knee > 0
  /\ AtKneeEnd(levelDb)
  /\ curveApp.branch = "knee"
  /\ curveVis.branch = "knee"
  /\ curveApp.gainReductionDb > 0

\* C6: for knee > 0 and ratio > 1 the knee-branch formula, which is the one the
\* code evaluates at levelDb = threshold + knee/2, gives there what the
\* above-knee formula gives at the same point, in both copies.
C6_ContinuousAtKneeEnd ==
  (CurveDone /\ params.knee > 0 /\ params.ratio > RatioUnit /\ AtKneeEnd(levelDb)) =>
    /\ curveApp.branch = "knee"
    /\ curveVis.branch = "knee"
    /\ InKneeDb(levelDb, params.threshold, params.knee, params.ratio)
         = AboveKneeDb(levelDb, params.threshold, params.ratio)
    /\ curveApp.gainReductionDb = AboveKneeDb(levelDb, params.threshold, params.ratio)
    /\ curveVis.gainReductionDb = VisAboveKneeDb(levelDb, params.threshold, params.ratio)

\* The knee branch evaluated at the upper boundary of the widest knee.
C6_Witness ==
  /\ CurveDone
  /\ params.knee = 40
  /\ params.ratio = 20 * RatioUnit
  /\ AtKneeEnd(levelDb)
  /\ curveApp = [branch |-> "knee", gainReductionDb |-> 19 * DbUnit]
  /\ curveVis = curveApp

\* C7: for fixed threshold, knee and ratio >= 1 the reduction never decreases
\* as the level rises: the reduction at the state's level is at most the
\* reduction at every higher level, in both copies and across all regions.
C7_Monotone ==
  (CurveDone /\ params.ratio >= RatioUnit) =>
    \A b \in Levels :
      b >= levelDb =>
        /\ curveApp.gainReductionDb
             <= GainCurveApp(b, params.threshold, params.knee, params.ratio).gainReductionDb
        /\ curveVis.gainReductionDb
             <= GainCurveVis(b, params.threshold, params.knee, params.ratio).gainReductionDb

\* A level inside a soft knee with a positive reduction, below levels above the
\* knee whose reduction is larger.
C7_Witness ==
  /\ CurveDone
  /\ params.ratio > RatioUnit
  /\ curveApp.branch = "knee"
  /\ curveApp.gainReductionDb > 0
  /\ \E b \in Levels :
       /\ b > levelDb
       /\ GainCurveApp(b, params.threshold, params.knee, params.ratio).branch = "above"
       /\ GainCurveApp(b, params.threshold, params.knee, params.ratio).gainReductionDb
            > curveApp.gainReductionDb

C9_HardKnee ==
  /\ (CurveDone /\ params.knee = 0 /\ params.ratio > RatioUnit) =>
       /\ curveApp.branch # "knee"
       /\ curveVis.branch # "knee"
       /\ levelDb <= DbUnit * params.threshold =>
            (curveApp.gainReductionDb = 0 /\ curveVis.gainReductionDb = 0)
       /\ levelDb > DbUnit * params.threshold =>
            /\ curveApp.gainReductionDb = FullRatioReduction(levelDb)
            /\ curveVis.gainReductionDb = FullRatioReduction(levelDb)
  /\ (Compressed /\ params.knee = 0 /\ params.ratio > RatioUnit) =>
       \A e \in LoopEntries : e.branch # "knee"

\* A hard knee applied just above its threshold.
C9_Witness ==
  /\ CurveDone
  /\ params.knee = 0
  /\ params.ratio > RatioUnit
  /\ levelDb = DbUnit * params.threshold + DbUnit \div 2
  /\ curveApp.branch = "above"
  /\ curveVis.branch = "above"
  /\ curveVis.gainReductionDb > 0


\* C10: (the claim as stated) at every site that computes time constants, the
\* sample compressor, the visualization's envelope and the visualization's
\* gain-reduction smoothing, the attack and release used are at least the
\* epsilon 1e-5, so that the divisor sampleRate * time is never 0.
C10_TimesFlooredEverywhere ==
  \A c \in {coeffs, envCoeffs, grCoeffs} :
    c.computed =>
      /\ c.attackTime >= Epsilon
      /\ c.releaseTime >= Epsilon
      /\ c.attackDivisor > 0
      /\ c.releaseDivisor > 0


\* C11: for a non-empty buffer, parameters in range and outputLength > 0 the
\* visualization returns, without raising, an envelope series and a
\* gain-reduction series of length exactly outputLength, every envelope value
\* in [0, 1] and every gain-reduction value >= 0.
C11_SeriesLengthAndRange ==
  (Visualized /\ width > 0 /\ params.ratio >= RatioUnit) =>
    /\ raised = "none"
    /\ Len(envelope) = width
    /\ Len(gainReduction) = width
    /\ \A i \in 1..width :
         /\ envelope[i] >= 0
         /\ envelope[i] <= Unit
         /\ gainReduction[i] >= 0

\* A buffer with a sample beyond full scale, drawn wider than it is long: its
\* envelope reached the cap of 1 and the reduction there is positive.
C11_Witness ==
  /\ Visualized
  /\ width > Len(input.channels[1])
  /\ params.ratio > RatioUnit
  /\ \E j \in 1..Len(input.channels[1]) : Abs(input.channels[1][j]) > Unit
  /\ \E i \in 1..width : envelope[i] = Unit /\ gainReduction[i] > 0
  /\ envelope[width] < Unit

\* C12: with ratio <= 1 the gain-reduction series has the requested length and
\* is all zeros, and no time constant of the smoothing was computed, whatever
\* the envelope, threshold, knee, attack and release.
C12_RatioAtMostOneAllZeros ==
  (Visualized /\ width >= 0 /\ params.ratio <= RatioUnit) =>
    /\ Len(gainReduction) = width
    /\ \A i \in 1..width : gainReduction[i] = 0
    /\ ~grCoeffs.computed

\* A ratio below 1 on an envelope that is above the threshold, where the curve
\* itself would not give 0.
C12_Witness ==
  /\ Visualized
  /\ params.ratio < RatioUnit
  /\ width >= 2
  /\ Len(gainReduction) = width
  /\ \E i \in 1..width :
       /\ ToDb(envelope[i]) > DbUnit * params.threshold + (DbUnit * params.knee) \div 2
       /\ GainCurveVis(ToDb(envelope[i]), params.threshold, params.knee,
                       params.ratio).gainReductionDb # 0
       /\ gainReduction[i] = 0

Normalized == op = "normalize" /\ Len(normalizerRuns) >= 1
NormalizedTwice == op = "normalize" /\ Len(normalizerRuns) >= 2

\* C15: the normalizer takes maxPeak as the largest absolute sample over all
\* channels; if maxPeak > 1 every sample of every channel becomes sample /
\* maxPeak, so that the largest absolute sample is 1; if maxPeak <= 1 every
\* sample is as it was.
C15_PeakNormalizer ==
  Normalized =>
    LET result == normalizerRuns[1]
        maxPeak == MaxPeak(input)
    IN  /\ \A ch \in ChannelsOf(input) : \A i \in SamplesOf(input, ch) :
             Abs(input.channels[ch][i]) <= maxPeak
        /\ \E ch \in ChannelsOf(input) : \E i \in SamplesOf(input, ch) :
             Abs(input.channels[ch][i]) = maxPeak
        /\ maxPeak > Unit =>
             /\ \A ch \in ChannelsOf(input) : \A i \in SamplesOf(input, ch) :
                  2 * Abs(result.channels[ch][i] * maxPeak - input.channels[ch][i] * Unit)
                    <= maxPeak
             /\ MaxPeak(result) = Unit
        /\ maxPeak <= Unit => result = input

\* A two-channel buffer whose peak, beyond full scale, is in the second channel
\* and negative, and whose first channel was scaled to a value that is not 0.
C15_Witness ==
  /\ Normalized
  /\ Len(input.channels) = 2
  /\ MaxPeak(input) = 3 * Unit
  /\ \E i \in SamplesOf(input, 2) : normalizerRuns[1].channels[2][i] = -Unit
  /\ \E i \in SamplesOf(input, 1) :
       /\ input.channels[1][i] = (7 * Unit) \div 10
       /\ normalizerRuns[1].channels[1][i] = 2333

\* C16: the normalizer is idempotent: run on its own result, it leaves every
\* sample as the first run left it.
C16_NormalizerIdempotent ==
  NormalizedTwice => normalizerRuns[2] = normalizerRuns[1]

\* Two runs on a buffer the first run had to scale.
C16_Witness ==
  /\ NormalizedTwice
  /\ pc = "done"
  /\ MaxPeak(input) > Unit
  /\ normalizerRuns[1] # input
  /\ heap[bufferRef] = normalizerRuns[2]


\* Buffers that agree with the input on channel ch: the input with one other
\* channel replaced by any samples.  (Every buffer of the input's shape that
\* agrees with it on channel ch is reached from it by such replacements, and
\* the property is checked from every input.)
AgreeingOn(ch) ==
  {[input EXCEPT !.channels[other] = data] :
     <<other, data>> \in (ChannelsOf(input) \ {ch})
                           \X [SamplesOf(input, 1) -> SampleValues]}
CompressedChannel(buffer, ch) ==
  OutputBufferOf(buffer, ChannelLoop(buffer, params, coeffs)).channels[ch]

\* C17: the compressor processes channels independently: the envelope of every
\* channel starts from 0, and every input that agrees with this one on channel
\* ch yields the same output on channel ch, whatever its other channels hold.
C17_ChannelsIndependent ==
  Compressed =>
    \A ch \in ChannelsOf(input) :
      /\ loop[ch][1].envFollower
           = EnvelopeStep(0, Abs(input.channels[ch][1]), coeffs.attackCoeff,
                          coeffs.releaseCoeff)
      /\ \A other \in AgreeingOn(ch) :
           CompressedChannel(other, ch) = OutputBuffer.channels[ch]

\* A two-channel compression with a second channel that was lowered, and an
\* input that differs in the first channel only, there in what comes out too.
C17_Witness ==
  /\ Compressed
  /\ Len(input.channels) = 2
  /\ OutputBuffer.channels[2] # input.channels[2]
  /\ \E other \in AgreeingOn(2) :
       /\ other.channels[1] # input.channels[1]
       /\ CompressedChannel(other, 1) # OutputBuffer.channels[1]
       /\ CompressedChannel(other, 2) = OutputBuffer.channels[2]


AppState == op = "app"
\* The parameter ranges the knobs declare, in the units of the model.
InDeclaredRanges(p) ==
  /\ p.threshold >= -100 /\ p.threshold <= 0
  /\ p.knee >= 0 /\ p.knee <= 40
  /\ p.ratio >= RatioUnit /\ p.ratio <= 20 * RatioUnit
  /\ p.attack >= 0 /\ p.attack <= 10^5
  /\ p.release >= 0 /\ p.release <= 10^5
\* A step that requests a compression: a knob release or a makeup-gain toggle.
CompressionRequest == KnobMouseUp \/ HandleMakeupGainToggle
\* The series Waveshape holds for the App's state.
WaveshapeSeries == WaveshapeMemo(originalBuffer, paramsState, width)

\* C14: with no original buffer loaded, the visualization holds no series and
\* raises nothing, and a request to apply compression (knob release or
\* makeup-gain toggle) starts no pass, raises nothing and leaves audioBuffer
\* and isProcessing as they were.
C14_NoBufferNoOp ==
  /\ [](AppState /\ originalBuffer = Null =>
          /\ WaveshapeSeries.isNull
          /\ WaveshapeSeries.raised = "none"
          /\ WaveshapeSeries.envelope = << >>
          /\ WaveshapeSeries.gainReduction = << >>)
  /\ [][(CompressionRequest /\ originalBuffer = Null) =>
          /\ audioBuffer' = audioBuffer
          /\ isProcessing' = isProcessing
          /\ rendering' = rendering
          /\ raised' = "none"]_vars

\* No file was ever decoded, a knob was dragged and released, the makeup gain
\* was switched on: nothing was produced.
C14_Witness ==
  /\ AppState
  /\ originalBuffer = Null
  /\ decoding = << >>
  /\ drag = NoDrag
  /\ paramsState.ratio > RatioUnit
  /\ makeupGain
  /\ audioBuffer = Null
  /\ ~isProcessing
  /\ rendering = << >>
  /\ raised = "none"

\* Every pass, pending or stored, ran on a decoded buffer (checked on its own:
\* this part of C18 holds).
PassInputsAreDecoded ==
  AppState =>
    /\ \A i \in 1..Len(rendering) : rendering[i].input.kind = "decoded"
    /\ audioBuffer.kind \in {"custom", "standard"} => audioBuffer.inputKind = "decoded"

\* C18: (the claim as stated) every pass takes a decoded buffer as its input,
\* and the playback buffer is always either the original buffer or the result
\* of one pass over the original buffer.
C18_PlaybackFromOriginal ==
  AppState =>
    /\ \A i \in 1..Len(rendering) : rendering[i].input.kind = "decoded"
    /\ \/ audioBuffer = originalBuffer
       \/ /\ audioBuffer.kind \in {"custom", "standard"}
          /\ audioBuffer.inputKind = "decoded"
          /\ audioBuffer.file = originalBuffer.file

\* C19: (the claim as stated, a change taken as complete when the knob is
\* released) a change of a parameter while a file is loaded replaces the
\* playback buffer by the compression of the original buffer with the
\* parameters that drive the visualization; with makeup gain, the rendering
\* of that compression is started.
C19_ChangeRecompresses ==
  [][(KnobMouseUp /\ originalBuffer # Null) =>
       IF makeupGainRef
         THEN /\ rendering' # << >>
              /\ rendering'[Len(rendering')] = [input |-> originalBuffer', params |-> paramsState']
         ELSE audioBuffer' = CustomPass(originalBuffer', paramsState')]_vars

\* C20: the parameter set, the ref and the state, stays within the declared
\* ranges, and so does every value a knob has emitted during a drag.
C20_ParamsInRange ==
  AppState =>
    /\ InDeclaredRanges(params)
    /\ InDeclaredRanges(paramsState)
    /\ drag # NoDrag =>
         InDeclaredRanges([DEFAULT_PARAMS EXCEPT ![drag.key] = drag.currentValue])

\* Drags past the ends of the ranges, which were clamped, and a drag to a
\* value that had to be rounded to the step.
C20_Witness ==
  /\ AppState
  /\ paramsState.attack = 10^5
  /\ paramsState.release = 73000
  /\ drag.key = "threshold"
  /\ drag.currentValue = -100


\* The envelope before step i of channel ch: 0 at the first sample.
EnvelopeBefore(ch, i) == IF i = 1 THEN 0 ELSE loop[ch][i - 1].envFollower
\* The largest absolute sample of channel ch up to sample i.
LargestSoFar(ch, i) ==
  LET abs == {Abs(input.channels[ch][j]) : j \in 1..i}
  IN  CHOOSE m \in abs : \A a \in abs : a <= m

\* C21: the sample compressor advances its envelope once per sample, from the
\* state s and x = |sample|: to x + (s - x) * attackCoeff if x > s, otherwise
\* to x + (s - x) * releaseCoeff; at x = s the state is unchanged.
C21_EnvelopeUpdate ==
  Compressed =>
    \A ch \in ChannelsOf(input) :
      /\ Len(loop[ch]) = Len(input.channels[ch])
      /\ \A i \in SamplesOf(input, ch) :
           LET s == EnvelopeBefore(ch, i)
               x == Abs(input.channels[ch][i])
               next == loop[ch][i].envFollower
           IN  /\ x > s => next = x + RoundDiv((s - x) * coeffs.attackCoeff, Unit)
               /\ x <= s => next = x + RoundDiv((s - x) * coeffs.releaseCoeff, Unit)
               /\ x = s => next = s

\* A channel with an attack step, a release step and a step at x = s, under
\* coefficients that differ and give different results.
C21_Witness ==
  /\ Compressed
  /\ coeffs.attackCoeff # coeffs.releaseCoeff
  /\ \E ch \in ChannelsOf(input) :
       /\ \E i \in SamplesOf(input, ch) :
            LET s == EnvelopeBefore(ch, i)
                x == Abs(input.channels[ch][i])
            IN  /\ x > s
                /\ loop[ch][i].envFollower # x + RoundDiv((s - x) * coeffs.releaseCoeff, Unit)
       /\ \E i \in SamplesOf(input, ch) :
            LET s == EnvelopeBefore(ch, i)
                x == Abs(input.channels[ch][i])
            IN  /\ x < s
                /\ loop[ch][i].envFollower # x + RoundDiv((s - x) * coeffs.attackCoeff, Unit)
       /\ \E i \in SamplesOf(input, ch) :
            EnvelopeBefore(ch, i) = Abs(input.channels[ch][i])

\* C24: with both coefficients in [0, 1), the envelope of the sample
\* compressor after each step lies between its previous value and the current
\* |sample| (inclusive), hence between 0 and the largest absolute sample seen
\* so far in that channel.
C24_EnvelopeBetweenStateAndInput ==
  (Compressed /\ coeffs.attackCoeff \in 0..(Unit - 1)
              /\ coeffs.releaseCoeff \in 0..(Unit - 1)) =>
    \A ch \in ChannelsOf(input) :
      \A i \in SamplesOf(input, ch) :
        LET s == EnvelopeBefore(ch, i)
            x == Abs(input.channels[ch][i])
            next == loop[ch][i].envFollower
        IN  /\ Min(s, x) <= next
            /\ next <= Max(s, x)
            /\ 0 <= next
            /\ next <= LargestSoFar(ch, i)

\* A channel compressed with non-zero coefficients below 1 whose envelope
\* rises strictly between state and input in one step and falls strictly
\* between input and state in another.
C24_Witness ==
  /\ Compressed
  /\ coeffs.attackCoeff \in 1..(Unit - 1)
  /\ coeffs.releaseCoeff \in 1..(Unit - 1)
  /\ \E ch \in ChannelsOf(input) :
       /\ \E i \in SamplesOf(input, ch) :
            /\ EnvelopeBefore(ch, i) < loop[ch][i].envFollower
            /\ loop[ch][i].envFollower < Abs(input.channels[ch][i])
       /\ \E i \in SamplesOf(input, ch) :
            /\ Abs(input.channels[ch][i]) < loop[ch][i].envFollower
            /\ loop[ch][i].envFollower < EnvelopeBefore(ch, i)
            /\ loop[ch][i].envFollower < LargestSoFar(ch, i)

\* The sample indices (from 0) that segment g reads.
SegmentIndices(g) == {k \in 0..(Len(input.channels[1]) - 1) : g.startIdx <= k /\ k < g.endIdx}
\* The largest of a set of non-negative numbers, 0 for the empty set.
LargestOf(S) == IF S = {} THEN 0 ELSE CHOOSE m \in S : \A a \in S : a <= m
\* A visualization of a non-empty buffer at a positive width has run.
EnvelopeComputed == Visualized /\ raised = "none" /\ width > 0

\* C22: with N samples and step = ceil(N / outputLength), output index i of
\* the visualization envelope reads the largest absolute sample over
\* [i*step, min((i+1)*step, N)), 0 when that range is empty; the ranges are
\* contiguous, stay inside the data and cover every sample index exactly
\* once; the value stored is min(state, 1).
C22_SegmentsPartitionTheData ==
  EnvelopeComputed =>
    LET data == input.channels[1]
        N == Len(data)
        step == CHOOSE k \in 1..N : k * width >= N /\ (k - 1) * width < N
    IN  /\ Len(segments) = width
        /\ \A i \in 1..width :
             LET g == segments[i]
             IN  /\ g.startIdx = (i - 1) * step
                 /\ g.endIdx = Min(i * step, N)
                 /\ g.endIdx <= N
                 /\ i > 1 /\ g.startIdx < N => g.startIdx = segments[i - 1].endIdx
                 /\ g.peak = LargestOf({Abs(data[k + 1]) : k \in SegmentIndices(g)})
                 /\ g.stored = Min(g.envValue, Unit)
                 /\ envelope[i] = g.stored
        /\ \A k \in 0..(N - 1) :
             Cardinality({i \in 1..width : k \in SegmentIndices(segments[i])}) = 1
\* A visualization with a segment of several samples, a shorter last segment,
\* an empty segment and a state clamped at 1.
C22_Witness ==
  /\ EnvelopeComputed
  /\ \E i \in 1..Len(segments) : Cardinality(SegmentIndices(segments[i])) > 1
  /\ \E i \in 1..Len(segments) : SegmentIndices(segments[i]) = {}
  /\ \E i \in 1..Len(segments) : segments[i].envValue > Unit /\ envelope[i] = Unit

\* C23 as stated: the per-segment update, for segment peak x, previous state
\* s and the attack or release coefficient coeff, is
\* s' = x + (s - x) * (1 - coeff).
C23_UpdateAsStated ==
  EnvelopeComputed =>
    \A i \in 1..Len(segments) :
      LET g == segments[i]
      IN  g.envValue = g.peak + RoundDiv((g.previous - g.peak) * (Unit - g.coeff), Unit)

\* C23, amended: the per-segment update is s' = s + (x - s) * (1 - coeff),
\* the state moved a fraction (1 - coeff) of the way to the peak, which is
\* x + (s - x) * coeff up to rounding; coeff is the attack coefficient exactly
\* when the peak exceeds the state.
C23_SegmentUpdate ==
  EnvelopeComputed =>
    \A i \in 1..Len(segments) :
      LET g == segments[i]
          s == g.previous
          x == g.peak
      IN  /\ g.previous = IF i = 1 THEN 0 ELSE segments[i - 1].envValue
          /\ g.coeff = IF x > s THEN envCoeffs.attackCoeff ELSE envCoeffs.releaseCoeff
          /\ g.envValue = s + RoundDiv((x - s) * (Unit - g.coeff), Unit)
          /\ Abs(g.envValue - (x + RoundDiv((s - x) * g.coeff, Unit))) <= 1

\* A visualization with an attack segment and a release segment on which the
\* update differs from x + (s - x) * (1 - coeff).
C23_Witness ==
  /\ EnvelopeComputed
  /\ \E i \in 1..Len(segments) :
       LET g == segments[i]
       IN  /\ g.peak > g.previous
           /\ g.coeff = envCoeffs.attackCoeff
           /\ g.envValue # g.peak + RoundDiv((g.previous - g.peak) * (Unit - g.coeff), Unit)
  /\ \E i \in 1..Len(segments) :
       LET g == segments[i]
       IN  /\ g.peak < g.previous
           /\ g.coeff = envCoeffs.releaseCoeff
           /\ g.envValue # g.peak + RoundDiv((g.previous - g.peak) * (Unit - g.coeff), Unit)

\* No pass, decode or knob drag is under way.
Settled == AppState /\ rendering = << >> /\ decoding = << >> /\ drag = NoDrag

\* C25: compression passes may overlap with knob releases, makeup-gain
\* toggles, resets and file loads; once no pass is in flight the playback
\* buffer is the original buffer (a reset or a file load came last) or the
\* result, for the current parameters and the current makeup-gain mode, of a
\* pass over the original buffer: a pass started earlier never overwrites
\* what a later request stored.
C25_LatestRequestWins ==
  Settled =>
    \/ audioBuffer = originalBuffer
    \/ /\ ~makeupGain
       /\ audioBuffer = CustomPass(originalBuffer, params)
    \/ /\ makeupGain
       /\ audioBuffer.kind = "standard"
       /\ audioBuffer.file = originalBuffer.file
       /\ audioBuffer.inputKind = originalBuffer.kind
       /\ audioBuffer.params = params

\* C26: in every reachable state, without an original buffer there is no
\* playback buffer either, also when the file is cleared while a pass or a
\* decode is still in flight.
C26_NoOriginalNoPlaybackBuffer ==
  AppState => (originalBuffer = Null => audioBuffer = Null)

\* The source held by the reference is started.
HoldsStartedSource == sourceRef # 0 /\ sources[sourceRef] = "started"

\* C27: across play, stop, natural end and file load or clear, isPlaying is
\* true exactly when the source reference holds the one source that is
\* started, at most one source is started at a time, and the ended callback of
\* a source that was stopped or replaced leaves the flag and the reference of
\* a newer source alone.
C27_PlaybackStateConsistent ==
  /\ [](AppState =>
          /\ isPlaying <=> HoldsStartedSource
          /\ Cardinality({i \in 1..Len(sources) : sources[i] = "started"}) <= 1)
  /\ [][\A i \in 1..Len(sources) :
          (sources[i] = "stopped" /\ sources'[i] = "ended" /\ HoldsStartedSource)
            => (isPlaying' = isPlaying /\ sourceRef' = sourceRef)]_vars

====
